---- MODULE Spec2Model ----
(***************************************************************************)
(* A model of the data validation and profiling engine of                  *)
(* src/utils/validators.py.  Every public function is a pure function of   *)
(* its arguments: the state is the caller's dataset (or column, or form    *)
(* field), the last call made and what that call returned.                 *)
(*                                                                         *)
(* A DataFrame is a record of its column labels, the dtype of each column, *)
(* its row index labels and its rows.  Text is a sequence of characters,   *)
(* so that the regular expressions and the numeric parse of the code are   *)
(* computed on the characters.  The score, a float in the code, is an      *)
(* exact fraction here.                                                    *)
(***************************************************************************)
EXTENDS Integers, Sequences, FiniteSets, TLC

VARIABLES df, series, field, op, arg, out

vars == <<df, series, field, op, arg, out>>

\* ------------------------------------------------------------------ bounds

\* Rows of the datasets of Spec.
MaxRows == 3
\* Rows of the datasets of SpecText, whose first column draws from TextPool.
MaxTextRows == 2
\* Length of the columns of SpecSeries.
MaxLen == 5
\* Widest cleaned dataset a caller takes as its next input.
MaxCols == 3
\* Rows of the one-column numeric datasets of Spec.
MaxTallRows == 5
\* The longest generated e-mail address, phone number and link (after its start).
MaxEmailLen == 6
MaxPhoneLen == 4
MaxUrlLen == 3

\* ------------------------------------------------------------------- cells

\* A cell: a missing value (None / NaN), a number, or a text.
Null == [kind |-> "null", n |-> 0, s |-> <<>>]
Num(n) == [kind |-> "num", n |-> n, s |-> <<>>]
Str(s) == [kind |-> "str", n |-> 0, s |-> s]

\* pandas isnull() of one cell.
IsNull(c) == c.kind = "null"

\* ---------------------------------------------------------- small helpers

Positions(n) == [i \in 1..n |-> i]

Max2(a, b) == IF a >= b THEN a ELSE b
Min2(a, b) == IF a <= b THEN a ELSE b
Abs(a) == IF a >= 0 THEN a ELSE -a

RECURSIVE Gcd(_, _)
Gcd(a, b) == IF b = 0 THEN a ELSE Gcd(b, a % b)

\* An exact fraction in lowest terms, den > 0.
Frac(n, d) ==
    LET g == Gcd(Abs(n), d)
    IN [num |-> n \div g, den |-> d \div g]

\* list.count(x)
Count(s, x) == Cardinality({k \in 1..Len(s) : s[k] = x})

\* The elements of s at the positions ps, in the order of ps.
RECURSIVE Pick(_, _)
Pick(s, ps) == IF ps = <<>> THEN <<>> ELSE <<s[Head(ps)]>> \o Pick(s, Tail(ps))

\* -------------------------------------------------------------------- text

Digits == {"0", "1", "2", "3", "4", "5", "6", "7", "8", "9"}

\* re.match(r'^-?\d+$', s)
IntShape(s) ==
    LET body == IF Len(s) > 0 /\ s[1] = "-" THEN Tail(s) ELSE s
    IN /\ Len(body) > 0
       /\ \A k \in 1..Len(body) : body[k] \in Digits

\* re.match(r'\d{4}-\d{2}-\d{2}', s): anchored at the start only.
DateShape(s) ==
    /\ Len(s) >= 10
    /\ \A k \in {1, 2, 3, 4, 6, 7, 9, 10} : s[k] \in Digits
    /\ s[5] = "-"
    /\ s[8] = "-"

\* pd.to_numeric accepts one text: the empty text (read as NaN), or an
\* optional sign followed by a decimal literal with at least one digit.
\* (The texts of the model hold no blank, exponent or inf/nan word.)
NumericText(s) ==
    \/ Len(s) = 0
    \/ LET body == IF s[1] \in {"+", "-"} THEN Tail(s) ELSE s
       IN /\ \A k \in 1..Len(body) : body[k] \in Digits \cup {"."}
          /\ Cardinality({k \in 1..Len(body) : body[k] = "."}) <= 1
          /\ \E k \in 1..Len(body) : body[k] \in Digits

\* str.lower() of one character, over the letters the model's texts use.
LowerChar(ch) ==
    CASE ch = "Y" -> "y"
      [] ch = "E" -> "e"
      [] ch = "S" -> "s"
      [] ch = "N" -> "n"
      [] ch = "O" -> "o"
      [] ch = "T" -> "t"
      [] OTHER -> ch

Lower(s) == [k \in 1..Len(s) |-> LowerChar(s[k])]

BoolWords ==
    { <<"t", "r", "u", "e">>, <<"f", "a", "l", "s", "e">>, <<"1">>, <<"0">>,
      <<"y", "e", "s">>, <<"n", "o">> }

\* ------------------------------------------------------------- DataFrames

\* The None passed where a DataFrame is expected.
NoneFrame ==
    [none |-> TRUE, columns |-> <<>>, dtypes |-> <<>>, index |-> <<>>, data |-> <<>>]

Frame(columns, dtypes, index, data) ==
    [none |-> FALSE, columns |-> columns, dtypes |-> dtypes, index |-> index,
     data |-> data]

NRows(d) == Len(d.index)
NCols(d) == Len(d.columns)

\* DataFrame.empty: some axis has length 0.
IsEmpty(d) == NRows(d) = 0 \/ NCols(d) = 0

\* len(df.columns) != len(set(df.columns))
HasDuplicateColumns(d) ==
    Cardinality({d.columns[j] : j \in 1..NCols(d)}) # NCols(d)

\* df[col] for the label at position j is a Series only if the label is unique
\* among the columns; otherwise it is a DataFrame (which has no .dtype and
\* whose comparisons are not a truth value).
LabelIsUnique(d, j) == Count(d.columns, d.columns[j]) = 1

\* df.isnull().sum() at column position j.
MissingCount(d, j) == Cardinality({i \in 1..NRows(d) : IsNull(d.data[i][j])})

\* df.isnull().all() at column position j.
AllMissing(d, j) == \A i \in 1..NRows(d) : IsNull(d.data[i][j])

\* df.isnull().sum().sum()
TotalMissing(d) ==
    Cardinality({<<i, j>> \in (1..NRows(d)) \X (1..NCols(d)) : IsNull(d.data[i][j])})

\* df[col].dropna() as the list of its values, for the column at position j.
DropNaValues(d, j) ==
    Pick([i \in 1..NRows(d) |-> d.data[i][j]],
         SelectSeq(Positions(NRows(d)), LAMBDA i : ~IsNull(d.data[i][j])))

\* df.duplicated().sum(): rows equal to an earlier row (NaN equals NaN).
DuplicatedCount(d) ==
    Cardinality({i \in 1..NRows(d) : \E k \in 1..(i - 1) : d.data[k] = d.data[i]})

\* df[col].nunique(): distinct non-missing values.
NUnique(d, j) ==
    Cardinality({d.data[i][j] : i \in {r \in 1..NRows(d) : ~IsNull(d.data[r][j])}})

\* ------------------------------------------------------ Quality Scorer

\* `return 50.0` of the except branch, and a failure reported as -1 instead.
FallbackScore_Sentinel == [num |-> -1, den |-> 1]

FallbackScore == Frac(50, 1)

\* `return 0.0` for an empty dataset.
EmptyScore == Frac(0, 1)

\* sum(1 for col in df.columns if df[col].nunique() <= 1)
SingleValueCols(d) == Cardinality({j \in 1..NCols(d) : NUnique(d, j) <= 1})

\* `df[col].nunique() <= 1` is a Series, not a truth value, when the label of
\* col is shared by several columns: the generator raises ValueError.
ScoreRaises(d) == \E j \in 1..NCols(d) : ~LabelIsUnique(d, j)

\* max(0.0, min(100.0, score)) of the fraction num / den.
ClampScore(num, den) == Frac(Max2(0, Min2(100 * den, num)), den)

\* calculate_data_quality_score(df).  None has no .empty: AttributeError,
\* caught like every other failure.  And a scorer whose missing ratio is taken
\* per row (missing cells / len(df)) instead of per cell.
calculate_data_quality_score_PerRow(d) ==
    IF d.none THEN FallbackScore
    ELSE IF IsEmpty(d) THEN EmptyScore
    ELSE IF ScoreRaises(d) THEN FallbackScore
    ELSE LET r == NRows(d)
             c == NCols(d)
             num == 100 * r * c - 30 * TotalMissing(d) * c
                    - 20 * DuplicatedCount(d) * c - 15 * SingleValueCols(d) * r
         IN ClampScore(num, r * c)

calculate_data_quality_score(d) ==
    IF d.none THEN FallbackScore
    ELSE IF IsEmpty(d) THEN EmptyScore
    ELSE IF ScoreRaises(d) THEN FallbackScore
    ELSE LET r == NRows(d)
             c == NCols(d)
             \* score = 100 - 30 * m/(r*c) - 20 * dup/r - 15 * single/c,
             \* over the common denominator r*c
             num == 100 * r * c - 30 * TotalMissing(d)
                    - 20 * DuplicatedCount(d) * c - 15 * SingleValueCols(d) * r
         IN ClampScore(num, r * c)

\* -------------------------------------------------- Structural Validator

Msg(text, cols) == [text |-> text, cols |-> cols]

EmptyDict == [k \in {} |-> 0]

EmptyReport ==
    [is_valid |-> FALSE,
     errors |-> <<Msg("DataFrame is empty or None", <<>>)>>,
     warnings |-> <<>>,
     info |-> EmptyDict,
     suggestions |-> <<Msg("Please upload a valid data file", <<>>)>>]

\* The report of the except branch; e is the text of the exception.
FailureReport(e) ==
    [is_valid |-> FALSE,
     errors |-> <<Msg("Validation error", <<e>>)>>,
     warnings |-> <<>>,
     info |-> EmptyDict,
     suggestions |-> <<Msg("Please check your data format", <<>>)>>]

\* [col for col in df.columns if list(df.columns).count(col) > 1]
DuplicateColumns(d) ==
    Pick(d.columns,
         SelectSeq(Positions(NCols(d)), LAMBDA j : Count(d.columns, d.columns[j]) > 1))

\* df.columns[df.isnull().all()].tolist()
EmptyCols(d) ==
    Pick(d.columns, SelectSeq(Positions(NCols(d)), LAMBDA j : AllMissing(d, j)))

\* missing_data[missing_data > len(df) * 0.5].index.tolist(); and the same
\* with >= in place of >.
HighMissingCols_AtLeastHalf(d) ==
    Pick(d.columns,
         SelectSeq(Positions(NCols(d)), LAMBDA j : 2 * MissingCount(d, j) >= NRows(d)))

HighMissingCols(d) ==
    Pick(d.columns,
         SelectSeq(Positions(NCols(d)), LAMBDA j : 2 * MissingCount(d, j) > NRows(d)))

\* pd.to_numeric(values, errors='raise') returns (does not raise).
ToNumericOk(values) == \A k \in 1..Len(values) : NumericText(values[k].s)

\* values.astype(str).str.match(r'\d{4}-\d{2}-\d{2}').any()
AnyDateShape(values) == \E k \in 1..Len(values) : DateShape(values[k].s)

\* One pass of the loop over df.columns for the column at position j: the
\* suggestions it appends.
TypeHints(d, j) ==
    IF d.dtypes[j] # "object" THEN <<>>
    ELSE (IF ToNumericOk(DropNaValues(d, j))
          THEN <<Msg("appears to contain numeric data but is stored as text",
                     <<d.columns[j]>>)>>
          ELSE <<>>)
         \o (IF AnyDateShape(DropNaValues(d, j))
             THEN <<Msg("appears to contain dates", <<d.columns[j]>>)>>
             ELSE <<>>)

RECURSIVE TypeHintsFrom(_, _)
TypeHintsFrom(d, j) ==
    IF j > NCols(d) THEN <<>> ELSE TypeHints(d, j) \o TypeHintsFrom(d, j + 1)

\* `df[col].dtype` raises AttributeError in the loop when the label of col is
\* shared by several columns (df[col] is then a DataFrame).
ValidateRaises(d) == \E j \in 1..NCols(d) : ~LabelIsUnique(d, j)

\* `df is None or df.empty`
IsEmptyInput_NoneOnly(d) == d.none

IsEmptyInput(d) == d.none \/ IsEmpty(d)

\* `len(errors) == 0`
Valid_Inverted(errors) == Len(errors) # 0

Valid(errors) == Len(errors) = 0

\* validate_dataframe(df)
validate_dataframe(d) ==
    IF IsEmptyInput(d) THEN EmptyReport
    ELSE IF ValidateRaises(d)
    THEN FailureReport("'DataFrame' object has no attribute 'dtype'")
    ELSE LET errors ==
                 IF HasDuplicateColumns(d)
                 THEN <<Msg("Duplicate column names found", DuplicateColumns(d))>>
                 ELSE <<>>
             warnings ==
                 (IF EmptyCols(d) # <<>>
                  THEN <<Msg("Completely empty columns", EmptyCols(d))>>
                  ELSE <<>>)
                 \o (IF HighMissingCols(d) # <<>>
                     THEN <<Msg("Columns with >50% missing data", HighMissingCols(d))>>
                     ELSE <<>>)
             suggestions ==
                 (IF HasDuplicateColumns(d)
                  THEN <<Msg("Rename duplicate columns to unique names", <<>>)>>
                  ELSE <<>>)
                 \o (IF EmptyCols(d) # <<>>
                     THEN <<Msg("Consider removing empty columns", <<>>)>>
                     ELSE <<>>)
                 \o (IF HighMissingCols(d) # <<>>
                     THEN <<Msg("Review columns with high missing data rates", <<>>)>>
                     ELSE <<>>)
                 \o TypeHintsFrom(d, 1)
             info ==
                 [shape |-> <<NRows(d), NCols(d)>>,
                  columns |-> d.columns,
                  dtypes |-> d.dtypes,
                  missing_data |-> [j \in 1..NCols(d) |-> MissingCount(d, j)],
                  data_quality_score |-> calculate_data_quality_score(d)]
         IN [is_valid |-> Valid(errors),
             errors |-> errors,
             warnings |-> warnings,
             info |-> info,
             suggestions |-> suggestions]

\* ------------------------------------------------------------ Type Advisor

\* The suggestion for the column at position j (one pass of the loop).
SuggestColumn(d, j) ==
    LET current_type == d.dtypes[j]
        sample_data == DropNaValues(d, j)
        texts == {sample_data[k].s : k \in 1..Len(sample_data)}
    IN IF Len(sample_data) = 0 THEN current_type
       ELSE IF current_type # "object" THEN current_type
       ELSE IF ToNumericOk(sample_data)
       THEN (IF \A s \in texts : IntShape(s) THEN "int64" ELSE "float64")
       ELSE IF AnyDateShape(sample_data) THEN "datetime64[ns]"
       ELSE IF {Lower(s) : s \in texts} \subseteq BoolWords THEN "bool"
       ELSE current_type

\* The loop stops at the first column whose label is shared: `df[col].dtype`
\* raises AttributeError there, and the entries made so far are returned.
\* The number of columns the loop completes:
SuggestedUpTo(d) ==
    IF \E j \in 1..NCols(d) : ~LabelIsUnique(d, j)
    THEN (CHOOSE j \in 1..NCols(d) :
              /\ ~LabelIsUnique(d, j)
              /\ \A k \in 1..(j - 1) : LabelIsUnique(d, k)) - 1
    ELSE NCols(d)

\* suggest_data_types(df): the dict, as the list of its (column, type)
\* entries in insertion order.  None has no .columns: AttributeError, caught.
suggest_data_types(d) ==
    IF d.none THEN <<>>
    ELSE [j \in 1..SuggestedUpTo(d) |-> [col |-> d.columns[j], type |-> SuggestColumn(d, j)]]

\* ----------------------------------------------------------------- Cleaner

\* The rows of d at the positions ps (their index labels kept).
TakeRows(d, ps) ==
    Frame(d.columns, d.dtypes, Pick(d.index, ps), Pick(d.data, ps))

\* The columns of d at the positions ps.
TakeCols(d, ps) ==
    Frame(Pick(d.columns, ps), Pick(d.dtypes, ps), d.index,
          [i \in 1..NRows(d) |-> Pick(d.data[i], ps)])

\* Missing cells of the row at position i.
RowMissingCount(d, i) == Cardinality({j \in 1..NCols(d) : IsNull(d.data[i][j])})

\* df.dropna(how='all'): the rows with at least one value.
DropAllMissingRows(d) ==
    TakeRows(d, SelectSeq(Positions(NRows(d)),
                          LAMBDA i : \E j \in 1..NCols(d) : ~IsNull(d.data[i][j])))

\* df.dropna(axis=1, how='all'): the columns with at least one value; and the
\* call without axis=1, which drops rows once more.
DropAllMissingCols_Rows(d) == DropAllMissingRows(d)

DropAllMissingCols(d) ==
    TakeCols(d, SelectSeq(Positions(NCols(d)), LAMBDA j : ~AllMissing(d, j)))

\* df.dropna(): the rows with no missing value.
DropAnyMissingRows(d) ==
    TakeRows(d, SelectSeq(Positions(NRows(d)), LAMBDA i : RowMissingCount(d, i) = 0))

\* The positions of the columns whose label is one of labels[k], label by
\* label: what df[labels] selects (every column that carries the label).
RECURSIVE PositionsOfLabels(_, _)
PositionsOfLabels(d, labels) ==
    IF labels = <<>> THEN <<>>
    ELSE SelectSeq(Positions(NCols(d)), LAMBDA j : d.columns[j] = Head(labels))
         \o PositionsOfLabels(d, Tail(labels))

\* missing_ratio[missing_ratio <= 0.8].index, then df_clean[cols_to_keep].
\* With no row the ratio is 0/0 = NaN, which is not <= 0.8.
SmartCols(d) ==
    LET cols_to_keep ==
            Pick(d.columns,
                 SelectSeq(Positions(NCols(d)),
                           LAMBDA j : NRows(d) > 0 /\ 5 * MissingCount(d, j) <= 4 * NRows(d)))
    IN TakeCols(d, PositionsOfLabels(d, cols_to_keep))

\* df_clean[row_missing_ratio <= 0.5].  With no column the ratio is NaN.
SmartRows(d) ==
    TakeRows(d, SelectSeq(Positions(NRows(d)),
                          LAMBDA i : NCols(d) > 0 /\ 2 * RowMissingCount(d, i) <= NCols(d)))

\* clean_data(df, strategy).  None has no .copy(): the except branch returns
\* the argument.  And a cleaner that takes every other strategy for 'basic'.
clean_data_ElseBasic(d, strategy) ==
    IF d.none THEN d
    ELSE IF strategy = "aggressive" THEN DropAnyMissingRows(d)
    ELSE IF strategy = "smart" THEN SmartRows(SmartCols(d))
    ELSE DropAllMissingCols(DropAllMissingRows(d))

clean_data(d, strategy) ==
    IF d.none THEN d
    ELSE IF strategy = "basic" THEN DropAllMissingCols(DropAllMissingRows(d))
    ELSE IF strategy = "aggressive" THEN DropAnyMissingRows(d)
    ELSE IF strategy = "smart" THEN SmartRows(SmartCols(d))
    ELSE d

\* The two names of the body of clean_data and the objects they are bound
\* to when it returns.  df.copy() binds df_clean to a new object; dropna and
\* the two selections return new objects, which the assignments bind to
\* df_clean; no statement writes to the object df names.  And a body that
\* cleans in place, without the copy.
CleanDataNames_InPlace(d, strategy) ==
    [df |-> clean_data(d, strategy), df_clean |-> clean_data(d, strategy)]

CleanDataNames(d, strategy) ==
    [df |-> d, df_clean |-> clean_data(d, strategy)]

\* What st.error shows (line 191): only None reaches the except branch.
CleanDataError(d) ==
    IF d.none THEN "Error cleaning data: 'NoneType' object has no attribute 'copy'"
    ELSE ""

\* -------------------------------------------------------- Outlier Detector

MkSeries(dtype, index, values) == [dtype |-> dtype, index |-> index, values |-> values]

\* pd.api.types.is_numeric_dtype(series), and a check that lets every dtype
\* through.
IsNumericDtype_AnyDtype(s) == TRUE

IsNumericDtype(s) == s.dtype \in {"int64", "float64"}

\* The positions of the non-missing values: series.dropna().
CleanPositions(s) ==
    SelectSeq(Positions(Len(s.values)), LAMBDA i : ~IsNull(s.values[i]))

\* s with x inserted before its first greater element (s ascending).
RECURSIVE Insert(_, _)
Insert(s, x) ==
    IF s = <<>> THEN <<x>>
    ELSE IF x <= Head(s) THEN <<x>> \o s
    ELSE <<Head(s)>> \o Insert(Tail(s), x)

RECURSIVE Sorted(_)
Sorted(s) == IF s = <<>> THEN <<>> ELSE Insert(Sorted(Tail(s)), Head(s))

\* Four times Series.quantile(k/4) of the ascending list xs (linear
\* interpolation between the two nearest ranks).
Quantile4(xs, k) ==
    LET h == (Len(xs) - 1) * k
        lo == (h \div 4) + 1
        rem == h % 4
    IN IF rem = 0 THEN 4 * xs[lo]
       ELSE 4 * xs[lo] + rem * (xs[lo + 1] - xs[lo])

\* The flagged rows by position (outliers.index of a RangeIndex) instead of
\* by label.
IqrOutliers_ByPosition(s) ==
    LET clean == Pick(s.values, CleanPositions(s))
        xs == Sorted([k \in 1..Len(clean) |-> clean[k].n])
        lower_bound == 2 * Quantile4(xs, 1) - 3 * (Quantile4(xs, 3) - Quantile4(xs, 1))
        upper_bound == 2 * Quantile4(xs, 3) + 3 * (Quantile4(xs, 3) - Quantile4(xs, 1))
    IN Pick([i \in 1..Len(s.values) |-> i - 1],
            SelectSeq(Positions(Len(s.values)),
                      LAMBDA i : /\ ~IsNull(s.values[i])
                                 /\ \/ 8 * s.values[i].n < lower_bound
                                    \/ 8 * s.values[i].n > upper_bound))

\* The index labels of the rows strictly outside
\* [Q1 - 1.5 * IQR, Q3 + 1.5 * IQR] (all compared at 8 times their value).
IqrOutliers(s) ==
    LET clean == Pick(s.values, CleanPositions(s))
        xs == Sorted([k \in 1..Len(clean) |-> clean[k].n])
        Q1 == Quantile4(xs, 1)
        Q3 == Quantile4(xs, 3)
        IQR == Q3 - Q1
        lower_bound == 2 * Q1 - 3 * IQR
        upper_bound == 2 * Q3 + 3 * IQR
    IN Pick(s.index,
            SelectSeq(Positions(Len(s.values)),
                      LAMBDA i : /\ ~IsNull(s.values[i])
                                 /\ \/ 8 * s.values[i].n < lower_bound
                                    \/ 8 * s.values[i].n > upper_bound))

\* series[z_scores > 3] raises IndexingError when series has a missing value:
\* z_scores is indexed by the non-missing rows only.
ZscoreRaises(s) == Len(CleanPositions(s)) # Len(s.values)

\* The index labels of the rows with |x - mean| / std > 3, std with n - 1 in
\* the denominator: (n*x - S)^2 * (n - 1) > 9 * n * (n * SS - S^2), S the sum
\* and SS the sum of squares.  With std = 0 every z is 0/0 = NaN: no row.
RECURSIVE SumSeq(_)
SumSeq(xs) == IF xs = <<>> THEN 0 ELSE Head(xs) + SumSeq(Tail(xs))

\* And a comparison that lets NaN pass.
ZscoreOutliers_NanFlagged(s) ==
    LET xs == [k \in 1..Len(s.values) |-> s.values[k].n]
        n == Len(xs)
        S == SumSeq(xs)
        SS == SumSeq([k \in 1..n |-> xs[k] * xs[k]])
    IN Pick(s.index,
            SelectSeq(Positions(n),
                      LAMBDA i : (n * xs[i] - S) * (n * xs[i] - S) * (n - 1)
                                 >= 9 * n * (n * SS - S * S)))

ZscoreOutliers(s) ==
    LET xs == [k \in 1..Len(s.values) |-> s.values[k].n]
        n == Len(xs)
        S == SumSeq(xs)
        SS == SumSeq([k \in 1..n |-> xs[k] * xs[k]])
    IN Pick(s.index,
            SelectSeq(Positions(n),
                      LAMBDA i : (n * xs[i] - S) * (n * xs[i] - S) * (n - 1)
                                 > 9 * n * (n * SS - S * S)))

\* detect_outliers(series, method)
detect_outliers(s, method) ==
    IF ~IsNumericDtype(s) THEN <<>>
    ELSE IF Len(CleanPositions(s)) < 4 THEN <<>>
    ELSE IF method = "iqr" THEN IqrOutliers(s)
    ELSE IF method = "zscore"
    THEN (IF ZscoreRaises(s) THEN <<>> ELSE ZscoreOutliers(s))
    ELSE <<>>

\* ------------------------------------------- Profiler and Recommendations

\* A float that is 0/0 or the statistic of no value.
NaN == [num |-> 0, den |-> 0]

\* 100 * n / d as a float: NaN or infinite when d = 0 (numpy only warns).
Percentage(n, d) == IF d = 0 THEN [num |-> n, den |-> 0] ELSE Frac(100 * n, d)

\* x > k and x < k for a percentage x: every comparison with NaN is false.
\* And a comparison that takes the threshold itself.
PctAbove_OrEqual(x, k) == x.den # 0 /\ x.num >= k * x.den
PctAbove(x, k) == x.den # 0 /\ x.num > k * x.den
PctBelow(x, k) == x.den # 0 /\ x.num < k * x.den

\* f"{x:.1f}" as the number of tenths it shows (NaN shows "nan": -1 here).
OneDecimal(x) == IF x.den = 0 THEN -1 ELSE (20 * x.num + x.den) \div (2 * x.den)

\* The column at position j as a Series.
ColumnSeries(d, j) == MkSeries(d.dtypes[j], d.index, [i \in 1..NRows(d) |-> d.data[i][j]])

\* col_data.astype(str) of one cell; a missing cell (NaN) reads "nan".
AsText(c) == IF IsNull(c) THEN <<"n", "a", "n">> ELSE c.s

\* mean, median, std (as its square, the variance with n - 1 below), min,
\* max, zeros_count, outliers_count of a numeric column (lines 266-274).
NumericProfile(d, j) ==
    LET cells == DropNaValues(d, j)
        xs == [k \in 1..Len(cells) |-> cells[k].n]
        n == Len(xs)
        S == SumSeq(xs)
        SS == SumSeq([k \in 1..n |-> xs[k] * xs[k]])
    IN [mean |-> IF n = 0 THEN NaN ELSE Frac(S, n),
        median |-> IF n = 0 THEN NaN ELSE Frac(Quantile4(Sorted(xs), 2), 4),
        std |-> IF n < 2 THEN NaN ELSE Frac(n * SS - S * S, n * (n - 1)),
        min |-> IF n = 0 THEN NaN ELSE Frac(Sorted(xs)[1], 1),
        max |-> IF n = 0 THEN NaN ELSE Frac(Sorted(xs)[n], 1),
        zeros_count |-> Cardinality({k \in 1..n : xs[k] = 0}),
        outliers_count |-> Len(detect_outliers(ColumnSeries(d, j), "iqr"))]

\* avg_length, max_length, min_length of a text column (lines 278-282).
TextProfile(d, j) ==
    LET lens == [i \in 1..NRows(d) |-> Len(AsText(d.data[i][j]))]
        n == NRows(d)
    IN [avg_length |-> IF n = 0 THEN NaN ELSE Frac(SumSeq(lens), n),
        max_length |-> IF n = 0 THEN NaN ELSE Frac(Sorted(lens)[n], 1),
        min_length |-> IF n = 0 THEN NaN ELSE Frac(Sorted(lens)[1], 1)]

\* col_profile of the column at position j (lines 256-284).
ColumnProfile(d, j) ==
    [col |-> d.columns[j],
     dtype |-> d.dtypes[j],
     missing_count |-> MissingCount(d, j),
     missing_percentage |-> Percentage(MissingCount(d, j), NRows(d)),
     unique_count |-> NUnique(d, j),
     unique_percentage |-> IF NRows(d) > 0 THEN Percentage(NUnique(d, j), NRows(d))
                           ELSE Frac(0, 1),
     stats |-> IF IsNumericDtype(ColumnSeries(d, j)) THEN NumericProfile(d, j)
               ELSE TextProfile(d, j)]

\* df.memory_usage(deep=True).sum(), in bytes: the index, 8 bytes a cell, and
\* for a text cell the string object it points to (CPython: 49 bytes and one
\* a character).  Only the comparison with 100 MB reads it.
MemoryUsage(d) ==
    128 + 8 * NRows(d) * NCols(d)
        + SumSeq([i \in 1..NRows(d) |->
                    SumSeq([j \in 1..NCols(d) |->
                              IF d.data[i][j].kind = "str"
                              THEN 49 + Len(d.data[i][j].s) ELSE 0])])

\* profile['overview'] (lines 242-249).  df.duplicated() of a dataset with no
\* row or no column flags nothing.
Overview(d) ==
    [rows |-> NRows(d),
     columns |-> NCols(d),
     missing_cells |-> TotalMissing(d),
     missing_percentage |-> Percentage(TotalMissing(d), NRows(d) * NCols(d)),
     duplicate_rows |-> IF IsEmpty(d) THEN 0 ELSE DuplicatedCount(d),
     memory_usage_mb |-> Frac(MemoryUsage(d), 1024 * 1024)]

\* One recommendation: its wording, the column it names, and what it fills in
\* (a percentage in tenths, a count, a type).
Rec(text, col, detail) == [text |-> text, col |-> col, detail |-> detail]

RECURSIVE Concat(_)
Concat(ss) == IF ss = <<>> THEN <<>> ELSE Head(ss) \o Concat(Tail(ss))

\* The high-missing loop (lines 333-337), one column profile at a time.
MissingRecs(columns) ==
    Concat([k \in 1..Len(columns) |->
        IF PctAbove(columns[k].missing_percentage, 50)
        THEN <<Rec("Consider removing column '{col}' - {pct}% missing data",
                   columns[k].col, OneDecimal(columns[k].missing_percentage))>>
        ELSE IF PctAbove(columns[k].missing_percentage, 20)
        THEN <<Rec("Review column '{col}' - {pct}% missing data",
                   columns[k].col, OneDecimal(columns[k].missing_percentage))>>
        ELSE <<>>])

\* The low-variance loop (lines 340-342).
VarianceRecs(columns) ==
    Concat([k \in 1..Len(columns) |->
        IF PctBelow(columns[k].unique_percentage, 1)
        THEN <<Rec("Column '{col}' has very low variance - consider removing",
                   columns[k].col, "")>>
        ELSE <<>>])

\* The types a conversion is recommended to (line 352).
ConvertibleTypes == {"int64", "float64", "datetime64[ns]", "bool"}

\* The type loop (lines 349-353).  Every suggested column has a label of its
\* own, so df[col] is a Series there.
TypeRecs(d) ==
    LET type_suggestions == suggest_data_types(d)
    IN Concat([k \in 1..Len(type_suggestions) |->
        LET col == type_suggestions[k].col
            suggested_type == type_suggestions[k].type
            current_type == d.dtypes[CHOOSE j \in 1..NCols(d) : d.columns[j] = col]
        IN IF suggested_type # current_type /\ suggested_type \in ConvertibleTypes
           THEN <<Rec("Consider converting column '{col}' to {type}", col, suggested_type)>>
           ELSE <<>>])

\* What the except branch appends (line 359): str(e) of a KeyError is the
\* missing key in quotes.
KeyErrorRec(key) == Rec("Error generating recommendations: {e}", "", key)

\* The position of the first column profile without the key, 0 if all have it.
FirstWithout(columns, key) ==
    LET without == {k \in 1..Len(columns) : key \notin DOMAIN columns[k]}
    IN IF without = {} THEN 0 ELSE CHOOSE k \in without : \A m \in without : k <= m

\* generate_recommendations(df, profile).  A lookup of a key the profile does
\* not hold raises KeyError: the loop stops there, and the entries made so
\* far followed by the error text are returned.
generate_recommendations(d, profile) ==
    IF "columns" \notin DOMAIN profile THEN <<KeyErrorRec("'columns'")>>
    ELSE IF FirstWithout(profile.columns, "missing_percentage") > 0
    THEN MissingRecs(SubSeq(profile.columns, 1,
                            FirstWithout(profile.columns, "missing_percentage") - 1))
         \o <<KeyErrorRec("'missing_percentage'")>>
    ELSE IF FirstWithout(profile.columns, "unique_percentage") > 0
    THEN MissingRecs(profile.columns)
         \o VarianceRecs(SubSeq(profile.columns, 1,
                                FirstWithout(profile.columns, "unique_percentage") - 1))
         \o <<KeyErrorRec("'unique_percentage'")>>
    ELSE LET loops == MissingRecs(profile.columns) \o VarianceRecs(profile.columns)
         IN IF "overview" \notin DOMAIN profile
            THEN loops \o <<KeyErrorRec("'overview'")>>
            ELSE IF "duplicate_rows" \notin DOMAIN profile.overview
            THEN loops \o <<KeyErrorRec("'duplicate_rows'")>>
            ELSE LET typed ==
                         loops
                         \o (IF profile.overview.duplicate_rows > 0
                             THEN <<Rec("Remove {n} duplicate rows", "",
                                        profile.overview.duplicate_rows)>>
                             ELSE <<>>)
                         \o TypeRecs(d)
                 IN IF "memory_usage_mb" \notin DOMAIN profile.overview
                    THEN typed \o <<KeyErrorRec("'memory_usage_mb'")>>
                    ELSE typed
                         \o (IF PctAbove(profile.overview.memory_usage_mb, 100)
                             THEN <<Rec("Consider optimizing data types to reduce memory usage",
                                        "", "")>>
                             ELSE <<>>)

\* The profile of the except branch (line 295).
EmptyProfile ==
    [overview |-> EmptyDict, columns |-> <<>>, correlations |-> EmptyDict,
     recommendations |-> <<>>]

\* len(None) raises TypeError; df[col] of a shared label is a DataFrame, and
\* col_data.dtype (line 257) raises AttributeError.
ProfileRaises(d) == d.none \/ HasDuplicateColumns(d)

\* The profile as it stands at line 287, before the recommendations are made.
BuiltProfile(d) ==
    [overview |-> Overview(d),
     columns |-> [j \in 1..NCols(d) |-> ColumnProfile(d, j)],
     correlations |-> EmptyDict,
     recommendations |-> <<>>]

\* profile_data(df)
profile_data(d) ==
    IF ProfileRaises(d) THEN EmptyProfile
    ELSE [BuiltProfile(d) EXCEPT
              !.recommendations = generate_recommendations(d, BuiltProfile(d))]

\* --------------------------------------------------------- Field Validators

LowerLetters ==
    {"a", "b", "c", "d", "e", "f", "g", "h", "i", "j", "k", "l", "m",
     "n", "o", "p", "q", "r", "s", "t", "u", "v", "w", "x", "y", "z"}

UpperLetters ==
    {"A", "B", "C", "D", "E", "F", "G", "H", "I", "J", "K", "L", "M",
     "N", "O", "P", "Q", "R", "S", "T", "U", "V", "W", "X", "Y", "Z"}

\* [a-zA-Z]
Letters == LowerLetters \cup UpperLetters

\* \w, over ASCII
WordChars == Letters \cup Digits \cup {"_"}

\* \s and the characters str.strip() removes, over ASCII
Whitespace == {" ", "\t", "\n", "\r", "\f"}

AllIn(s, chars) == \A k \in 1..Len(s) : s[k] \in chars

\* s[a..] : the characters of s after the first a
From(s, a) == SubSeq(s, a + 1, Len(s))

HasPrefix(s, p) == Len(s) >= Len(p) /\ SubSeq(s, 1, Len(p)) = p

\* str.strip(); and a strip that removes nothing.
RECURSIVE StripLeft(_)
StripLeft(s) ==
    IF s # <<>> /\ Head(s) \in Whitespace THEN StripLeft(Tail(s)) ELSE s

RECURSIVE StripRight(_)
StripRight(s) ==
    IF s # <<>> /\ s[Len(s)] \in Whitespace
    THEN StripRight(SubSeq(s, 1, Len(s) - 1))
    ELSE s

Strip_Nothing(s) == s

Strip(s) == StripRight(StripLeft(s))

\* `$` of re.match: the end of the text, or just before a newline that ends
\* it.  The texts a pattern ending in `$` may have consumed.
UpToDollar(s) ==
    {s} \cup (IF s # <<>> /\ s[Len(s)] = "\n" THEN {SubSeq(s, 1, Len(s) - 1)} ELSE {})

\* `not x or not isinstance(x, str)`: None, a number, the empty string.
NotAString(c) == c.kind # "str" \/ c.s = <<>>

\* [a-zA-Z0-9._%+-] and [a-zA-Z0-9.-]
EmailLocalChars == Letters \cup Digits \cup {".", "_", "%", "+", "-"}
EmailDomainChars == Letters \cup Digits \cup {".", "-"}

\* ^[a-zA-Z0-9._%+-]+@[a-zA-Z0-9.-]+\.[a-zA-Z]{2,}$  (line 115): the '@' at
\* position i, the dot of `\.` at position j.
EmailPattern(s) ==
    \E u \in UpToDollar(s) :
        \E i \in 2..Len(u) : \E j \in (i + 2)..(Len(u) - 2) :
            /\ u[i] = "@"
            /\ u[j] = "."
            /\ AllIn(SubSeq(u, 1, i - 1), EmailLocalChars)
            /\ AllIn(SubSeq(u, i + 1, j - 1), EmailDomainChars)
            /\ AllIn(From(u, j), Letters)

\* validate_email(email)
validate_email(c) ==
    IF NotAString(c) THEN FALSE ELSE EmailPattern(Strip(c.s))

\* [\s\-$\.] (line 124): whitespace, dash, dollar sign and dot.
PhoneSeparators == Whitespace \cup {"-", "$", "."}

\* re.sub(r'[...]', '', phone.strip())
CleanPhone(s) == SelectSeq(Strip(s), LAMBDA ch : ch \notin PhoneSeparators)

\* ^\+?1?[2-9]\d{2}[2-9]\d{2}\d{4}$ : p is 1 when the '+' is there, o is 1
\* when the '1' is there.
UsPattern(s) ==
    \E u \in UpToDollar(s) : \E p \in {0, 1} : \E o \in {0, 1} :
        /\ Len(u) = p + o + 10
        /\ p = 1 => u[1] = "+"
        /\ o = 1 => u[p + 1] = "1"
        /\ AllIn(From(u, p + o), Digits)
        /\ u[p + o + 1] \in Digits \ {"0", "1"}
        /\ u[p + o + 4] \in Digits \ {"0", "1"}

\* ^\+?[1-9]\d{1,14}$
InternationalPattern(s) ==
    \E u \in UpToDollar(s) : \E p \in {0, 1} :
        /\ Len(u) - p >= 2
        /\ Len(u) - p <= 15
        /\ p = 1 => u[1] = "+"
        /\ AllIn(From(u, p), Digits)
        /\ u[p + 1] # "0"

\* validate_phone(phone)
validate_phone(c) ==
    IF NotAString(c) THEN FALSE
    ELSE UsPattern(CleanPhone(c.s)) \/ InternationalPattern(CleanPhone(c.s))

\* https?:// ; and a pattern that lets ftp pass as well.
UrlSchemes_Ftp ==
    { <<"h", "t", "t", "p", ":", "/", "/">>, <<"h", "t", "t", "p", "s", ":", "/", "/">>,
      <<"f", "t", "p", ":", "/", "/">> }

UrlSchemes ==
    { <<"h", "t", "t", "p", ":", "/", "/">>, <<"h", "t", "t", "p", "s", ":", "/", "/">> }

\* [-\w.]  [:\d]  [\w/_.]  [\w&=%.]
UrlHostChars == WordChars \cup {"-", "."}
UrlPortChars == Digits \cup {":"}
UrlPathChars == WordChars \cup {"/", "."}
UrlQueryChars == WordChars \cup {"&", "=", "%", "."}

\* (?:\?(?:[\w&=%.])*)?  and  (?:#(?:\w*))?
UrlQuery(s) == s = <<>> \/ (s[1] = "?" /\ AllIn(Tail(s), UrlQueryChars))
UrlFragment(s) == s = <<>> \/ (s[1] = "#" /\ AllIn(Tail(s), WordChars))

\* (?:/(?:[\w/_.])*(?:\?...)?(?:#...)?)?  : the path ends at position a, the
\* query at position b.
UrlTail(s) ==
    \/ s = <<>>
    \/ /\ s[1] = "/"
       /\ \E a \in 1..Len(s) : \E b \in a..Len(s) :
              /\ AllIn(SubSeq(s, 2, a), UrlPathChars)
              /\ UrlQuery(SubSeq(s, a + 1, b))
              /\ UrlFragment(From(s, b))

\* ^https?://(?:[-\w.])+(?:[:\d]+)?(?:/...)?$  (line 139): the host ends at
\* position h, the port at position p.
UrlPattern(s) ==
    \E u \in UpToDollar(s) : \E scheme \in UrlSchemes :
        /\ HasPrefix(u, scheme)
        /\ LET rest == From(u, Len(scheme))
           IN \E h \in 1..Len(rest) : \E p \in h..Len(rest) :
                  /\ AllIn(SubSeq(rest, 1, h), UrlHostChars)
                  /\ AllIn(SubSeq(rest, h + 1, p), UrlPortChars)
                  /\ UrlTail(From(rest, p))

\* validate_url(url)
validate_url(c) ==
    IF NotAString(c) THEN FALSE ELSE UrlPattern(Strip(c.s))

\* ------------------------------------------------------------------ inputs

Schema(columns, dtypes) == [columns |-> columns, dtypes |-> dtypes]

\* The texts of the datasets of Spec.
SmallTexts == { <<"1">>, <<"a">> }

\* The texts of the first column of the datasets of SpecText.
TextPool ==
    { <<"1">>, <<"0">>, <<"-", "3">>, <<"1", ".", "5">>,
      <<"y", "e", "s">>, <<"N", "o">>, <<"t", "r", "u", "e">>,
      <<"a", "p", "p", "l", "e">>,
      <<"2", "0", "2", "4", "-", "0", "1", "-", "0", "1">> }

\* The values a column of the given dtype draws from.
CellPool(dtype, texts) ==
    IF dtype = "object" THEN {Null} \cup {Str(s) : s \in texts}
    ELSE {Null, Num(1), Num(2)}

\* The rows of a dataset of schema sch (of at most three columns): the first
\* column draws its texts from first, the others from SmallTexts.
RowsOf(sch, first) ==
    LET P(j) == CellPool(sch.dtypes[j], IF j = 1 THEN first ELSE SmallTexts)
    IN CASE Len(sch.columns) = 0 -> {<<>>}
         [] Len(sch.columns) = 1 -> {<<a>> : a \in P(1)}
         [] Len(sch.columns) = 2 -> {<<a, b>> : a \in P(1), b \in P(2)}
         [] OTHER -> {<<a, b, c>> : a \in P(1), b \in P(2), c \in P(3)}

\* d is a dataset of one of the schemas with at most maxRows rows, under the
\* default RangeIndex 0, 1, ...
FrameOf(d, schemas, first, maxRows) ==
    \E sch \in schemas : \E r \in 0..maxRows :
        \E data \in [1..r -> RowsOf(sch, first)] :
            d = Frame(sch.columns, sch.dtypes, [i \in 1..r |-> i - 1], data)

Schemas ==
    { Schema(<<>>, <<>>),
      Schema(<<"A">>, <<"object">>),
      Schema(<<"A">>, <<"float64">>),
      Schema(<<"A", "B">>, <<"object", "object">>),
      Schema(<<"A", "B">>, <<"object", "float64">>),
      Schema(<<"A", "A">>, <<"object", "object">>),
      Schema(<<"A", "A">>, <<"float64", "object">>) }

\* Three columns, two of them under one label.
WideSchemas ==
    { Schema(<<"A", "B", "A">>, <<"object", "object", "object">>),
      Schema(<<"B", "A", "A">>, <<"object", "float64", "object">>) }

\* A numeric column long enough to hold one missing value in five.
TallSchemas == { Schema(<<"A">>, <<"float64">>) }

InputFrame(d) ==
    \/ d = NoneFrame
    \/ FrameOf(d, Schemas, SmallTexts, MaxRows)
    \/ FrameOf(d, WideSchemas, SmallTexts, 1)
    \/ FrameOf(d, TallSchemas, SmallTexts, MaxTallRows)

TextSchemas ==
    { Schema(<<"A">>, <<"object">>),
      Schema(<<"A">>, <<"float64">>),
      Schema(<<"A", "B">>, <<"object", "object">>),
      Schema(<<"A", "B">>, <<"object", "float64">>),
      Schema(<<"A", "A">>, <<"object", "object">>) }

InputTextFrame(d) ==
    \/ FrameOf(d, TextSchemas, TextPool, MaxTextRows)
    \/ FrameOf(d, WideSchemas, TextPool, 1)

NoSeries == MkSeries("object", <<>>, <<>>)
NoOutput == [raised |-> FALSE, value |-> <<>>]
NoField == Null

Strategies == {"basic", "aggressive", "smart", "other"}

\* The profiles a caller hands to generate_recommendations with the dataset d:
\* the fallback profile of profile_data, the profile built for d, that
\* profile reporting 101 MB, and that profile with entries taken out (the
\* overview, the statistics of the columns, the memory figure).
ProfileArguments(d) ==
    {EmptyProfile}
    \cup (IF ProfileRaises(d) THEN {}
          ELSE LET built == BuiltProfile(d)
               IN { built,
                    [built EXCEPT !.overview.memory_usage_mb = Frac(101, 1)],
                    [built EXCEPT !.overview = EmptyDict],
                    [built EXCEPT !.overview = [rows |-> NRows(d), columns |-> NCols(d),
                                                duplicate_rows |-> built.overview.duplicate_rows]],
                    [built EXCEPT !.columns = [j \in 1..NCols(d) |->
                         [col |-> d.columns[j], dtype |-> d.dtypes[j],
                          missing_percentage |-> built.columns[j].missing_percentage]]],
                    [built EXCEPT !.columns = [j \in 1..NCols(d) |->
                         IF j = 1 THEN built.columns[j]
                         ELSE [col |-> d.columns[j], dtype |-> d.dtypes[j]]]] })

\* ----------------------------------------------------------------- actions

\* The caller holds an input and has made no call on it yet.
Ready == op = "input"

\* What a call that returned v leaves behind.
Returned(v) == [raised |-> FALSE, value |-> v]

ValidateDataframe ==
    /\ Ready
    /\ op' = "validate_dataframe"
    /\ arg' = ""
    /\ out' = Returned(validate_dataframe(df))
    /\ UNCHANGED <<df, series, field>>

CalculateDataQualityScore ==
    /\ Ready
    /\ op' = "calculate_data_quality_score"
    /\ arg' = ""
    /\ out' = Returned(calculate_data_quality_score(df))
    /\ UNCHANGED <<df, series, field>>

SuggestDataTypes ==
    /\ Ready
    /\ op' = "suggest_data_types"
    /\ arg' = ""
    /\ out' = Returned(suggest_data_types(df))
    /\ UNCHANGED <<df, series, field>>

CleanData ==
    \E strategy \in Strategies :
        /\ Ready
        /\ op' = "clean_data"
        /\ arg' = strategy
        /\ out' = [raised |-> FALSE,
                   value |-> CleanDataNames(df, strategy).df_clean,
                   error |-> CleanDataError(df)]
        /\ df' = CleanDataNames(df, strategy).df
        /\ UNCHANGED <<series, field>>

ProfileData ==
    /\ Ready
    /\ op' = "profile_data"
    /\ arg' = ""
    /\ out' = Returned(profile_data(df))
    /\ UNCHANGED <<df, series, field>>

GenerateRecommendations ==
    \E profile \in ProfileArguments(df) :
        /\ Ready
        /\ op' = "generate_recommendations"
        /\ arg' = profile
        /\ out' = Returned(generate_recommendations(df, profile))
        /\ UNCHANGED <<df, series, field>>

\* The caller takes the cleaned dataset as its next input.
Reuse ==
    /\ op = "clean_data"
    /\ NCols(out.value) <= MaxCols
    /\ df' = out.value
    /\ op' = "input"
    /\ arg' = ""
    /\ out' = NoOutput
    /\ UNCHANGED <<series, field>>

Init ==
    /\ InputFrame(df)
    /\ series = NoSeries
    /\ field = NoField
    /\ op = "input"
    /\ arg = ""
    /\ out = NoOutput

Next ==
    \/ ValidateDataframe
    \/ CalculateDataQualityScore
    \/ SuggestDataTypes
    \/ CleanData
    \/ ProfileData
    \/ GenerateRecommendations
    \/ Reuse

Spec == Init /\ [][Next]_vars

InitText ==
    /\ InputTextFrame(df)
    /\ series = NoSeries
    /\ field = NoField
    /\ op = "input"
    /\ arg = ""
    /\ out = NoOutput

SpecText == InitText /\ [][Next]_vars

\* ------------------------------------------------------ columns (SpecSeries)

\* Row labels of a column of n rows: the default RangeIndex, or labels that
\* differ from every position.
RangeLabels(n) == [i \in 1..n |-> i - 1]
OtherLabels(n) == [i \in 1..n |-> 10 * (n - i + 1)]

NumPool == {Null, Num(0), Num(1), Num(9)}

\* An object column holds numbers and texts side by side.
ObjectPool == {Null, Num(0), Num(9), Str(<<"a">>)}

NumList(xs) == [k \in 1..Len(xs) |-> Num(xs[k])]

\* The columns of the worked examples: 1..9 and 100; 1, 2, 3; ten 0 and one 100.
ExampleSeries ==
    { MkSeries("int64", RangeLabels(10), NumList(<<1, 2, 3, 4, 5, 6, 7, 8, 9, 100>>)),
      MkSeries("int64", OtherLabels(10), NumList(<<1, 2, 3, 4, 100, 5, 6, 7, 8, 9>>)),
      MkSeries("int64", RangeLabels(3), NumList(<<1, 2, 3>>)),
      MkSeries("int64", OtherLabels(11), NumList(<<0, 0, 0, 100, 0, 0, 0, 0, 0, 0, 0>>)),
      MkSeries("float64", OtherLabels(12),
               <<Null>> \o NumList(<<0, 0, 0, 100, 0, 0, 0, 0, 0, 0, 0>>)) }

InputSeries(s) ==
    \/ s \in ExampleSeries
    \/ \E n \in 0..MaxLen : \E labels \in {RangeLabels(n), OtherLabels(n)} :
           \E values \in [1..n -> NumPool] :
               s = MkSeries("float64", labels, values)
    \/ \E n \in 0..MaxLen : \E values \in [1..n -> ObjectPool] :
           s = MkSeries("object", RangeLabels(n), values)

Methods == {"iqr", "zscore", "other"}

DetectOutliers ==
    \E method \in Methods :
        /\ Ready
        /\ op' = "detect_outliers"
        /\ arg' = method
        /\ out' = Returned(detect_outliers(series, method))
        /\ UNCHANGED <<df, series, field>>

InitSeries ==
    /\ df = NoneFrame
    /\ InputSeries(series)
    /\ field = NoField
    /\ op = "input"
    /\ arg = ""
    /\ out = NoOutput

NextSeries == DetectOutliers

SpecSeries == InitSeries /\ [][NextSeries]_vars

\* ------------------------------------------------- form fields (SpecFields)

\* The worked examples.
ExampleFields ==
    { Str(<<"a", "@", "b", ".", "c", "o">>),
      Str(<<"n", "o", "t", "-", "a", "n", "-", "e", "m", "a", "i", "l">>),
      Str(<<" ", "a", "@", "b", ".", "c", "o", " ">>),
      Str(<<"a", "@", "b", ".", "c">>),
      Str(<<"a", ".", "b", "@", "c", "-", "d", ".", "o", "r", "g">>),
      Str(<<"a", "@", "b">>),
      Str(<<"@", "b", ".", "c", "o">>),
      Str(<<"a", "@", "b", ".", ".", "c", "o">>),
      Str(<<"a", "@", "b", ".", "c", "0">>),
      Str(<<"(", "5", "5", "5", ")", " ", "1", "2", "3", "-", "4", "5", "6", "7">>),
      Str(<<"5", "5", "5", "-", "1", "2", "3", "-", "4", "5", "6", "7">>),
      Str(<<"5", "5", "5", ".", "1", "2", "3", ".", "4", "5", "6", "7">>),
      Str(<<"5", "5", "5", "1", "2", "3", "4", "5", "6", "7">>),
      Str(<<"+", "1", "5", "5", "5", "1", "2", "3", "4", "5", "6", "7">>),
      Str(<<"1", "5", "5", "5", "1", "2", "3", "4", "5", "6", "7">>),
      Str(<<"+", "1", " ", "5", "5", "5", " ", "1", "2", "3", " ", "4", "5", "6", "7">>),
      Str(<<"1", "2", "3", "4", "5", "6", "7", "8", "9", "0">>),
      Str(<<"5", "5", "5", "1", "0", "3", "4", "5", "6", "7">>),
      Str(<<"0", "5", "5", "1", "2", "3", "4", "5", "6", "7">>),
      Str(<<"+", "4", "4", "2", "0", "7", "1", "2", "3", "4", "5", "6", "7">>),
      Str(<<"4", "4", "2", "0", "7", "1", "2", "3", "4", "5", "6", "7">>),
      Str(<<"5", "5", "5", "1", "2", "3", "4", "5", "6">>),
      Str(<<"f", "t", "p", ":", "/", "/", "x", ".", "c", "o", "m">>),
      Str(<<"h", "t", "t", "p", ":", "/", "/", "x", ".", "c", "o", "m">>),
      Str(<<"h", "t", "t", "p", "s", ":", "/", "/", "x", ".", "c", "o", "m">>),
      Str(<<"h", "t", "t", "p", "s", ":", "/", "/", "x", ".", "c", "o", "m", ":", "8", "0", "8", "0", "/", "a", "/", "b", ".", "h", "t", "m", "l", "?", "q", "=", "1", "&", "r", "=", "2", "#", "t", "o", "p">>),
      Str(<<"h", "t", "t", "p", ":", "/", "/">>),
      Str(<<"x", ".", "c", "o", "m">>),
      Str(<<"h", "t", "t", "p", ":", "/", "/", "x", ".", "c", "o", "m", "/", "a", " ", "b">>),
      Str(<<"h", "t", "t", "p", ":", "/", "x", ".", "c", "o", "m">>),
      Str(<<"h", "t", "t", "p", "s", "s", ":", "/", "/", "x", ".", "c", "o", "m">>) }

\* The characters of the generated addresses, numbers and links.
EmailChars == {"a", "1", "@", ".", " "}
PhoneChars == {"+", "0", "1", "2", "(", ")", " ", "-", "."}
UrlChars == {"x", "8", ".", ":", "/", "?", "#", "=", " "}

\* What the generated links start with.
UrlStarts ==
    { <<>>, <<"h", "t", "t", "p", ":", "/", "/">>, <<"h", "t", "t", "p", "s", ":", "/", "/">>,
      <<"f", "t", "p", ":", "/", "/">>, <<"h", "t", "t", "p", ":", "/">>, <<"h", "t", "t", "p", ":", "/", "/", "x">> }

\* A field is None, a number, or a string: empty, a worked example, or
\* generated from the characters above.
InputField(c) ==
    \/ c \in {Null, Num(0), Num(5), Str(<<>>)}
    \/ c \in ExampleFields
    \/ \E n \in 1..MaxEmailLen : \E s \in [1..n -> EmailChars] : c = Str(s)
    \/ \E n \in 1..MaxPhoneLen : \E s \in [1..n -> PhoneChars] : c = Str(s)
    \/ \E start \in UrlStarts : \E n \in 0..MaxUrlLen : \E s \in [1..n -> UrlChars] :
           c = Str(start \o s)

ValidateEmail ==
    /\ Ready
    /\ op' = "validate_email"
    /\ arg' = ""
    /\ out' = Returned(validate_email(field))
    /\ UNCHANGED <<df, series, field>>

ValidatePhone ==
    /\ Ready
    /\ op' = "validate_phone"
    /\ arg' = ""
    /\ out' = Returned(validate_phone(field))
    /\ UNCHANGED <<df, series, field>>

ValidateUrl ==
    /\ Ready
    /\ op' = "validate_url"
    /\ arg' = ""
    /\ out' = Returned(validate_url(field))
    /\ UNCHANGED <<df, series, field>>

InitFields ==
    /\ df = NoneFrame
    /\ series = NoSeries
    /\ InputField(field)
    /\ op = "input"
    /\ arg = ""
    /\ out = NoOutput

NextFields ==
    \/ ValidateEmail
    \/ ValidatePhone
    \/ ValidateUrl

SpecFields == InitFields /\ [][NextFields]_vars

\* ================================================================= claims

\* The texts the structural checks of validate_dataframe write.
StructuralTexts ==
    { "Duplicate column names found", "Rename duplicate columns to unique names",
      "Completely empty columns", "Consider removing empty columns",
      "Columns with >50% missing data", "Review columns with high missing data rates",
      "appears to contain numeric data but is stored as text",
      "appears to contain dates" }

Texts(msgs) == {msgs[k].text : k \in 1..Len(msgs)}

Validated == op = "validate_dataframe"
Scored == op = "calculate_data_quality_score"

\* C1: validate_dataframe of None or of an empty dataset returns (raises
\* nothing) a report with is_valid false, exactly one error and no warning,
\* to which no structural check (duplicate names, empty columns, high-missing
\* columns, type hints) has contributed.
C1_EmptyInputReport ==
    (Validated /\ (df.none \/ IsEmpty(df)))
    => /\ ~out.raised
       /\ ~out.value.is_valid
       /\ Len(out.value.errors) = 1
       /\ out.value.warnings = <<>>
       /\ (Texts(out.value.errors) \cup Texts(out.value.suggestions))
              \cap StructuralTexts = {}
       /\ DOMAIN out.value.info = {}

\* An empty dataset (no row) on which the structural checks would have fired:
\* its two columns share a label and are entirely missing.
C1_Witness ==
    /\ Validated
    /\ ~df.none
    /\ NRows(df) = 0
    /\ HasDuplicateColumns(df)

\* C2: for a non-empty dataset in which some column name occurs more than
\* once, the report is invalid and one of its errors lists every column name
\* that occurs more than once.
C2_DuplicateColumnsListed ==
    (Validated /\ ~df.none /\ ~IsEmpty(df) /\ HasDuplicateColumns(df))
    => /\ ~out.value.is_valid
       /\ \E k \in 1..Len(out.value.errors) :
              \A j \in 1..NCols(df) :
                  Count(df.columns, df.columns[j]) > 1
                  => \E m \in 1..Len(out.value.errors[k].cols) :
                         out.value.errors[k].cols[m] = df.columns[j]

\* C3: on every return path is_valid is true exactly when errors is empty,
\* whatever warnings and suggestions hold.
C3_ValidIffNoErrors ==
    Validated => (out.value.is_valid <=> out.value.errors = <<>>)

\* A valid report that carries a warning and a suggestion.
C3_Witness ==
    /\ Validated
    /\ out.value.is_valid
    /\ out.value.warnings # <<>>
    /\ out.value.suggestions # <<>>

\* C4: for every non-empty dataset the report's info holds
\* data_quality_score, equal to calculate_data_quality_score of the dataset.
C4_ScoreInInfo ==
    (Validated /\ ~df.none /\ ~IsEmpty(df))
    => /\ "data_quality_score" \in DOMAIN out.value.info
       /\ out.value.info.data_quality_score = calculate_data_quality_score(df)

\* C5: calculate_data_quality_score returns s with 0 <= s <= 100 on every
\* path; an empty dataset scores 0.
C5_ScoreBounds ==
    Scored
    => /\ out.value.den > 0
       /\ 0 <= out.value.num
       /\ out.value.num <= 100 * out.value.den
       /\ (~df.none /\ IsEmpty(df)) => out.value.num = 0

\* The computation failed on a non-empty dataset and the fallback was returned.
C5_Witness ==
    /\ Scored
    /\ ~df.none
    /\ ~IsEmpty(df)
    /\ ScoreRaises(df)
    /\ out.value = [num |-> 50, den |-> 1]

\* The score as the specification states it: 100 less 30 times the share of
\* missing cells, 20 times the share of rows equal to an earlier row and 15
\* times the share of columns with at most one distinct non-missing value,
\* clamped to [0, 100]; as a fraction in lowest terms.
ClaimedScore(d) ==
    LET r == NRows(d)
        c == NCols(d)
        missing == Cardinality({<<i, j>> \in (1..r) \X (1..c) : d.data[i][j] = Null})
        repeated == Cardinality({i \in 1..r : \E k \in 1..r : k < i /\ d.data[k] = d.data[i]})
        constant ==
            Cardinality({j \in 1..c :
                Cardinality({d.data[i][j] : i \in 1..r} \ {Null}) <= 1})
        num == 100 * r * c - 30 * missing - 20 * repeated * c - 15 * constant * r
        clamped == IF num < 0 THEN 0 ELSE IF num > 100 * r * c THEN 100 * r * c ELSE num
        g == Gcd(clamped, r * c)
    IN [num |-> clamped \div g, den |-> (r * c) \div g]

\* C6: for every non-empty dataset calculate_data_quality_score equals the
\* clamped formula; with no missing value, no repeated row and no constant
\* column it is exactly 100.
C6_ScoreFormula ==
    (Scored /\ ~df.none /\ ~IsEmpty(df))
    => out.value = ClaimedScore(df)

Detected == op = "detect_outliers"

\* The number of non-missing values of the column.
NonMissing(s) == Cardinality({i \in 1..Len(s.values) : s.values[i] # Null})

\* C7: detect_outliers returns the empty list, whatever the method, for a
\* non-numeric column and for a column with fewer than 4 non-missing values,
\* however many missing values pad it.
C7_NoSampleNoOutliers ==
    (Detected /\ (series.dtype = "object" \/ NonMissing(series) < 4))
    => /\ ~out.raised
       /\ out.value = <<>>

\* A numeric column of three values padded with missing values to at least
\* five rows.
C7_Witness ==
    /\ Detected
    /\ series.dtype # "object"
    /\ NonMissing(series) = 3
    /\ Len(series.values) >= 5

\* The ascending list of the non-missing values of the column.
NonMissingSorted(s) ==
    Sorted([k \in 1..NonMissing(s) |->
              s.values[SelectSeq(Positions(Len(s.values)),
                                 LAMBDA i : s.values[i] # Null)[k]].n])

\* Row i holds a value strictly below Q1 - 1.5 * IQR or strictly above
\* Q3 + 1.5 * IQR, the quartiles taken over the non-missing values (q1 and q3
\* are four times the quartiles, the comparison is made at eight times).
OutsideFences(s, i) ==
    LET q1 == Quantile4(NonMissingSorted(s), 1)
        q3 == Quantile4(NonMissingSorted(s), 3)
    IN /\ s.values[i] # Null
       /\ \/ 8 * s.values[i].n < 2 * q1 - 3 * (q3 - q1)
          \/ 8 * s.values[i].n > 2 * q3 + 3 * (q3 - q1)

\* C8: for a numeric column with at least 4 non-missing values, method 'iqr'
\* returns exactly the index labels (not the positions) of the rows strictly
\* outside the fences, once each and in row order; a row with a missing value
\* is never returned; in 1, 2, 3, 4, 100, 5, ..., 9 under the labels
\* 100, 90, ..., 10 the row returned is the one labelled 60, which holds 100.
C8_IqrOutliers ==
    (Detected /\ arg = "iqr" /\ series.dtype # "object" /\ NonMissing(series) >= 4)
    => /\ \A i \in 1..Len(series.values) :
              OutsideFences(series, i)
              <=> \E k \in 1..Len(out.value) : out.value[k] = series.index[i]
       /\ \A k \in 1..Len(out.value) : \E i \in 1..Len(series.values) :
              out.value[k] = series.index[i]
       /\ \A k, m \in 1..Len(out.value) :
              k < m => \E i, j \in 1..Len(series.values) :
                           /\ i < j
                           /\ out.value[k] = series.index[i]
                           /\ out.value[m] = series.index[j]
       /\ series = MkSeries("int64", OtherLabels(10),
                            NumList(<<1, 2, 3, 4, 100, 5, 6, 7, 8, 9>>))
          => out.value = <<60>>

\* A column whose labels are not its positions, with a missing value and an
\* outlier.
C8_Witness ==
    /\ Detected
    /\ arg = "iqr"
    /\ series.dtype # "object"
    /\ NonMissing(series) >= 4
    /\ NonMissing(series) < Len(series.values)
    /\ series.index # RangeLabels(Len(series.values))
    /\ out.value # <<>>

Suggested == op = "suggest_data_types"

\* The texts of the non-missing values of the column at position j.
ColumnTexts(d, j) == {d.data[i][j].s : i \in {r \in 1..NRows(d) : d.data[r][j] # Null}}

\* The type the cascade of the specification gives the column at position j.
ClaimedType(d, j) ==
    IF d.dtypes[j] # "object" \/ \A i \in 1..NRows(d) : d.data[i][j] = Null
    THEN d.dtypes[j]
    ELSE IF \A s \in ColumnTexts(d, j) : NumericText(s)
    THEN (IF \A s \in ColumnTexts(d, j) : IntShape(s) THEN "int64" ELSE "float64")
    ELSE IF \E s \in ColumnTexts(d, j) : DateShape(s) THEN "datetime64[ns]"
    ELSE IF \A s \in ColumnTexts(d, j) : Lower(s) \in BoolWords THEN "bool"
    ELSE d.dtypes[j]

\* C9: for every text-kind column with at least one non-missing value (told
\* from the other columns by its label) the dict that suggest_data_types
\* returns holds the first that fires of: all values numeric (int64 if all
\* are integer literals, else float64), a date-shaped value (datetime64[ns]),
\* all values boolean words (bool), else the current dtype.
C9_TypeCascade ==
    (Suggested /\ ~df.none)
    => \A j \in 1..NCols(df) :
           (/\ Count(df.columns, df.columns[j]) = 1
            /\ df.dtypes[j] = "object"
            /\ \E i \in 1..NRows(df) : df.data[i][j] # Null)
           => \E k \in 1..Len(out.value) :
                  /\ out.value[k].col = df.columns[j]
                  /\ out.value[k].type = ClaimedType(df, j)

Cleaned == op = "clean_data"

\* C10: clean_data with strategy 'basic' is idempotent: cleaning its result
\* again returns that result (same rows, same columns, same values), because
\* the result has no entirely missing row and no entirely missing column.
C10_BasicIdempotent ==
    (Cleaned /\ arg = "basic")
    => /\ clean_data(out.value, "basic") = out.value
       /\ ~out.value.none
          => /\ \A i \in 1..NRows(out.value) :
                    \E j \in 1..NCols(out.value) : out.value.data[i][j] # Null
             /\ \A j \in 1..NCols(out.value) :
                    \E i \in 1..NRows(out.value) : out.value.data[i][j] # Null

\* A cleaning that dropped a row and a column and kept something.
C10_Witness ==
    /\ Cleaned
    /\ arg = "basic"
    /\ ~df.none
    /\ NRows(out.value) > 0
    /\ NRows(out.value) < NRows(df)
    /\ NCols(out.value) < NCols(df)

\* C11: clean_data leaves the caller's dataset as it was, whatever the
\* strategy, and also when the failure is caught (None): the dataset the
\* caller holds after the call is the one it held before.
C11_InputUntouched == [][op' = "clean_data" => df' = df]_vars

\* A call that dropped something: the result differs from the caller's dataset.
C11_Witness == Cleaned /\ ~df.none /\ out.value # df

\* C12: with a strategy outside basic, aggressive and smart, clean_data
\* returns a dataset equal to its input and shows no error.
C12_UnknownStrategy ==
    (Cleaned /\ arg \notin {"basic", "aggressive", "smart"} /\ ~df.none)
        => /\ out.value = df
           /\ ~out.raised
           /\ out.error = ""

\* An unknown strategy on a dataset the basic strategy would have shortened.
C12_Witness ==
    /\ Cleaned /\ arg = "other" /\ ~df.none
    /\ DropAllMissingRows(df) # df
    /\ out.value = df

\* The smart strategy as stated: the columns with missing / rows > 0.8 go,
\* then the rows with missing / remaining columns > 0.5 go; the rest stays in
\* place.
ClaimedSmartCols(d) ==
    TakeCols(d, SelectSeq(Positions(NCols(d)),
                          LAMBDA j : ~(5 * MissingCount(d, j) > 4 * NRows(d))))

ClaimedSmart(d) ==
    LET reduced == ClaimedSmartCols(d)
    IN TakeRows(reduced,
                SelectSeq(Positions(NRows(reduced)),
                          LAMBDA i : ~(2 * RowMissingCount(reduced, i) > NCols(reduced))))

\* C20: clean_data with 'smart' returns the dataset without the columns whose
\* missing ratio exceeds 0.8 and then without the rows whose missing ratio,
\* over the remaining columns, exceeds 0.5; order and values are kept.  Stated
\* for the datasets on which both ratios are defined (a row, and a column left).
C20_SmartCleaning ==
    (/\ Cleaned /\ arg = "smart" /\ ~df.none
     /\ NRows(df) > 0
     /\ NCols(ClaimedSmartCols(df)) > 0)
        => out.value = ClaimedSmart(df)

\* The non-missing values of the column, in row order.
NonMissingValues(s) ==
    LET rows == SelectSeq(Positions(Len(s.values)), LAMBDA i : s.values[i] # Null)
    IN [k \in 1..Len(rows) |-> s.values[rows[k]].n]

\* n * n * (n - 1) times the variance (n - 1 in the denominator) of the
\* non-missing values.
ScaledVariance(s) ==
    LET xs == NonMissingValues(s)
        n == Len(xs)
    IN n * (n * SumSeq([k \in 1..n |-> xs[k] * xs[k]]) - SumSeq(xs) * SumSeq(xs))

\* Row i holds a value with |value - mean| / std > 3, mean and std over the
\* non-missing values: squared and multiplied out,
\* (n * value - sum)^2 * (n - 1) > 9 * n * (n * sum of squares - sum^2).
FarFromMean(s, i) ==
    LET xs == NonMissingValues(s)
        n == Len(xs)
        dev == n * s.values[i].n - SumSeq(xs)
    IN /\ s.values[i] # Null
       /\ dev * dev * (n - 1) > 9 * ScaledVariance(s)

\* C18: for a numeric column with at least 4 non-missing values and non-zero
\* standard deviation, method 'zscore' returns exactly the index labels of the
\* rows whose |value - mean| / std exceeds 3, in row order, also when other
\* rows hold missing values.
C18_ZscoreOutliers ==
    (/\ Detected /\ arg = "zscore"
     /\ series.dtype # "object"
     /\ NonMissing(series) >= 4
     /\ ScaledVariance(series) # 0)
        => out.value = Pick(series.index,
                            SelectSeq(Positions(Len(series.values)),
                                      LAMBDA i : FarFromMean(series, i)))

\* C19: method 'zscore' on a column whose non-missing values all coincide
\* returns the empty list and raises nothing.
C19_ZeroStd ==
    (/\ Detected /\ arg = "zscore"
     /\ \A i, j \in 1..Len(series.values) :
            (series.values[i] # Null /\ series.values[j] # Null)
                => series.values[i] = series.values[j])
        => /\ ~out.raised
           /\ out.value = <<>>

\* A numeric column of at least four values, none missing, all the same: the
\* division by the zero deviation is made.
C19_Witness ==
    /\ Detected /\ arg = "zscore"
    /\ series.dtype # "object"
    /\ Len(series.values) >= 4
    /\ \A i \in 1..Len(series.values) : series.values[i] = series.values[1]
    /\ series.values[1] # Null
    /\ out.value = <<>>

EmailChecked == op = "validate_email"
PhoneChecked == op = "validate_phone"
UrlChecked == op = "validate_url"

\* The separators a phone number may be written with.
ClaimedSeparators == {"(", ")", " ", "-", "."}

WithoutSeparators(s) == SelectSeq(s, LAMBDA ch : ch \notin ClaimedSeparators)

\* C13: the verdict of validate_phone does not depend on whitespace, dashes,
\* parentheses and dots: a number and the same number with these characters
\* taken out get the same verdict, and "(555) 123-4567" is valid.
C13_SeparatorsIgnored ==
    (PhoneChecked /\ field.kind = "str")
        => /\ out.value = validate_phone(Str(WithoutSeparators(field.s)))
           /\ field = Str(<<"(", "5", "5", "5", ")", " ", "1", "2", "3", "-", "4", "5", "6", "7">>) => out.value = TRUE

\* Ten digits, the first and the fourth in 2-9.
ClaimedUsNumber(s) ==
    /\ Len(s) = 10
    /\ \A k \in 1..10 : s[k] \in Digits
    /\ s[1] \notin {"0", "1"}
    /\ s[4] \notin {"0", "1"}

\* A US number, bare or after '+1', or '+' and 2 to 15 digits, the first not 0.
ClaimedPhone(s) ==
    \/ ClaimedUsNumber(s)
    \/ HasPrefix(s, <<"+", "1">>) /\ ClaimedUsNumber(From(s, 2))
    \/ /\ HasPrefix(s, <<"+">>)
       /\ Len(s) - 1 \in 2..15
       /\ \A k \in 2..Len(s) : s[k] \in Digits
       /\ s[2] # "0"

\* C14: validate_phone returns true only if the number, its separators taken
\* out, is a 10-digit US number (area code and exchange starting in 2-9),
\* bare or after '+1', or '+' followed by 2 to 15 digits with a non-zero
\* first digit.
C14_PhoneShapes ==
    (PhoneChecked /\ out.value = TRUE)
        => /\ field.kind = "str"
           /\ ClaimedPhone(WithoutSeparators(field.s))

\* The positions of the character ch in s.
Where(s, ch) == {k \in 1..Len(s) : s[k] = ch}

\* s without its leading and trailing blanks.
Trimmed(s) ==
    LET inked == {k \in 1..Len(s) : s[k] \notin Whitespace}
    IN IF inked = {} THEN <<>>
       ELSE SubSeq(s, CHOOSE a \in inked : \A k \in inked : a <= k,
                      CHOOSE b \in inked : \A k \in inked : b >= k)

\* local@domain.tld: one '@' with a local part before it; after it a domain
\* with a dot, something before its last dot, and at least 2 letters after it.
ClaimedEmail(s) ==
    /\ Cardinality(Where(s, "@")) = 1
    /\ LET at == CHOOSE k \in Where(s, "@") : TRUE
           local == SubSeq(s, 1, at - 1)
           domain == From(s, at)
           dots == Where(domain, ".")
       IN /\ local # <<>>
          /\ \A k \in 1..Len(local) : local[k] \in EmailLocalChars
          /\ \A k \in 1..Len(domain) : domain[k] \in EmailDomainChars
          /\ dots # {}
          /\ LET last == CHOOSE k \in dots : \A m \in dots : m <= k
             IN /\ last > 1
                /\ Len(domain) - last >= 2
                /\ \A k \in (last + 1)..Len(domain) : domain[k] \in Letters

\* C15: validate_email returns true exactly for the strings that, trimmed,
\* have the shape local@domain.tld with a dot in the domain and a last label
\* of at least 2 letters; "a@b.co" is valid, "not-an-email" is not, and
\* neither is an empty or non-string input.
C15_EmailShape ==
    EmailChecked
        => /\ out.value = (field.kind = "str" /\ ClaimedEmail(Trimmed(field.s)))
           /\ field = Str(<<"a", "@", "b", ".", "c", "o">>) => out.value = TRUE
           /\ field = Str(<<"n", "o", "t", "-", "a", "n", "-", "e", "m", "a", "i", "l">>) => out.value = FALSE
           /\ field \in {Null, Num(0), Num(5), Str(<<>>)} => out.value = FALSE

\* A valid address written with blanks around it.
C15_Witness ==
    /\ EmailChecked
    /\ field.kind = "str"
    /\ Trimmed(field.s) # field.s
    /\ out.value = TRUE

\* C16: validate_url returns true only for strings that, trimmed, start with
\* http:// or https:// followed by a host; "ftp://x.com", the empty string
\* and non-strings are rejected.
C16_HttpOnly ==
    UrlChecked
        => /\ out.value = TRUE =>
                /\ field.kind = "str"
                /\ \E scheme \in {<<"h", "t", "t", "p", ":", "/", "/">>,
                                  <<"h", "t", "t", "p", "s", ":", "/", "/">>} :
                       /\ HasPrefix(Trimmed(field.s), scheme)
                       /\ Len(Trimmed(field.s)) > Len(scheme)
                       /\ Trimmed(field.s)[Len(scheme) + 1] \notin {"/", ":", "?", "#"}
           /\ field = Str(<<"f", "t", "p", ":", "/", "/", "x", ".", "c", "o", "m">>) => out.value = FALSE
           /\ field \in {Null, Num(0), Num(5), Str(<<>>)} => out.value = FALSE

\* The rejected ftp link.
C16_Witness ==
    /\ UrlChecked
    /\ field = Str(<<"f", "t", "p", ":", "/", "/", "x", ".", "c", "o", "m">>)
    /\ out.value = FALSE

Profiled == op = "profile_data"

\* The (column, type) pairs the type advisor flags as convertible: a suggested
\* type among int64, float64, datetime64[ns] and bool that is not the type the
\* column is stored with.
FlaggedConversions(d) ==
    LET suggestions == suggest_data_types(d)
    IN { [col |-> suggestions[k].col, type |-> suggestions[k].type] :
           k \in { m \in 1..Len(suggestions) :
                     /\ suggestions[m].type \in {"int64", "float64", "datetime64[ns]", "bool"}
                     /\ \E j \in 1..NCols(d) :
                            /\ d.columns[j] = suggestions[m].col
                            /\ d.dtypes[j] # suggestions[m].type } }

\* The (column, type) pairs of the "Consider converting column" entries.
RecommendedConversions(recs) ==
    { [col |-> recs[k].col, type |-> recs[k].detail] :
        k \in { m \in 1..Len(recs) :
                  recs[m].text = "Consider converting column '{col}' to {type}" } }

\* C17: the recommendations of profile_data hold a "Consider converting
\* column" entry, naming the same type, for exactly the columns the type
\* advisor flags as convertible for that dataset.
C17_RecommendationConsistency ==
    Profiled =>
        RecommendedConversions(out.value.recommendations) = FlaggedConversions(df)

Recommended == op = "generate_recommendations"

\* The recommendations hold an entry of this wording for this column.
HasEntry(recs, text, col) ==
    \E k \in 1..Len(recs) : recs[k].text = text /\ recs[k].col = col

RemoveText == "Consider removing column '{col}' - {pct}% missing data"
ReviewText == "Review column '{col}' - {pct}% missing data"

\* C21: for each column of the profile, the "Consider removing column" entry
\* is there iff the missing percentage is above 50, the "Review column" entry
\* iff it is above 20 and at most 50, never both; exactly 20% gets neither,
\* exactly 50% only the review entry.  (For profiles that hold a missing
\* percentage for every column.)
C21_MissingThresholds ==
    (/\ Recommended
     /\ \A k \in 1..Len(arg.columns) : "missing_percentage" \in DOMAIN arg.columns[k])
        => \A k \in 1..Len(arg.columns) :
               LET pct == arg.columns[k].missing_percentage
                   remove == HasEntry(out.value, RemoveText, arg.columns[k].col)
                   review == HasEntry(out.value, ReviewText, arg.columns[k].col)
               IN /\ remove <=> (pct.den > 0 /\ pct.num > 50 * pct.den)
                  /\ review <=> (pct.den > 0 /\ pct.num > 20 * pct.den
                                              /\ pct.num <= 50 * pct.den)
                  /\ ~(remove /\ review)
                  /\ pct = [num |-> 20, den |-> 1] => (~remove /\ ~review)
                  /\ pct = [num |-> 50, den |-> 1] => (~remove /\ review)

\* A column with exactly one value in five missing, and no entry for it.
C21_Witness ==
    /\ Recommended
    /\ Len(arg.columns) = 1
    /\ "missing_percentage" \in DOMAIN arg.columns[1]
    /\ arg.columns[1].missing_percentage = [num |-> 20, den |-> 1]
    /\ ~HasEntry(out.value, RemoveText, arg.columns[1].col)
    /\ ~HasEntry(out.value, ReviewText, arg.columns[1].col)

\* The profile lacks an entry generate_recommendations looks up.
LacksKeys(profile) ==
    \/ \E k \in 1..Len(profile.columns) :
           {"missing_percentage", "unique_percentage"} \ DOMAIN profile.columns[k] # {}
    \/ {"duplicate_rows", "memory_usage_mb"} \ DOMAIN profile.overview # {}

\* C22: when the profile handed to generate_recommendations lacks the overview
\* or the per-column entries, the call returns the empty recommendation list
\* and raises nothing.
C22_FallbackIsEmpty ==
    (Recommended /\ LacksKeys(arg))
        => /\ ~out.raised
           /\ out.value = <<>>

\* The lengths of the non-missing texts of the column at position j, ascending.
PresentLengths(d, j) ==
    Sorted([k \in 1..Len(DropNaValues(d, j)) |-> Len(DropNaValues(d, j)[k].s)])

\* C23: for a text column, avg_length, max_length and min_length of
\* profile_data are taken over the non-missing values only, so rows whose
\* value is missing do not move them.  (Stated for the columns that hold a
\* value.)
C23_TextLengths ==
    Profiled =>
        \A j \in 1..Len(out.value.columns) :
            (df.dtypes[j] = "object" /\ Len(DropNaValues(df, j)) > 0)
                => LET lens == PresentLengths(df, j)
                   IN out.value.columns[j].stats =
                          [avg_length |-> Frac(SumSeq(lens), Len(lens)),
                           max_length |-> Frac(lens[Len(lens)], 1),
                           min_length |-> Frac(lens[1], 1)]

\* The column lists of the warnings of this wording.
WarnedCols(report, text) ==
    {report.warnings[k].cols : k \in {m \in 1..Len(report.warnings) :
                                        report.warnings[m].text = text}}

\* The labels of the columns at the positions that satisfy Test, in order.
LabelsWhere(d, Test(_)) ==
    LET RECURSIVE From1(_)
        From1(j) == IF j > NCols(d) THEN <<>>
                    ELSE (IF Test(j) THEN <<d.columns[j]>> ELSE <<>>) \o From1(j + 1)
    IN From1(1)

\* C24: for a non-empty dataset with unique column names the structural
\* checks do not cut each other short: the empty-columns warning lists exactly
\* the columns with every value missing, the >50% warning exactly the columns
\* with more than half their values missing (a fully missing column is in
\* both), each warning is there iff its list is not empty, and is_valid stays
\* true.
C24_IndependentChecks ==
    (Validated /\ ~df.none /\ ~IsEmpty(df) /\ ~HasDuplicateColumns(df))
        => LET allMissing(j) == \A i \in 1..NRows(df) : df.data[i][j] = Null
               overHalf(j) ==
                   2 * Cardinality({i \in 1..NRows(df) : df.data[i][j] = Null}) > NRows(df)
               empties == LabelsWhere(df, allMissing)
               highs == LabelsWhere(df, overHalf)
           IN /\ WarnedCols(out.value, "Completely empty columns")
                    = (IF empties = <<>> THEN {} ELSE {empties})
              /\ WarnedCols(out.value, "Columns with >50% missing data")
                    = (IF highs = <<>> THEN {} ELSE {highs})
              /\ \A k \in 1..Len(empties) : \E m \in 1..Len(highs) : highs[m] = empties[k]
              /\ out.value.is_valid = TRUE
              /\ out.value.errors = <<>>

\* Two columns, one fully missing and named by both warnings, the other half
\* missing and named by neither; the report is valid.
C24_Witness ==
    /\ Validated /\ ~df.none /\ NCols(df) = 2 /\ NRows(df) = 2
    /\ ~HasDuplicateColumns(df)
    /\ AllMissing(df, 1)
    /\ MissingCount(df, 2) = 1
    /\ WarnedCols(out.value, "Completely empty columns") = {<<df.columns[1]>>}
    /\ WarnedCols(out.value, "Columns with >50% missing data") = {<<df.columns[1]>>}
    /\ Len(out.value.suggestions) >= 2
    /\ out.value.is_valid = TRUE

\* 100 - 30 * missing/(r*c) - 20 * repeated/r - 15 * constant/c, not clamped,
\* as the pair of its numerator and denominator r*c.
RawScore(d) ==
    LET r == NRows(d)
        c == NCols(d)
        missing == Cardinality({<<i, j>> \in (1..r) \X (1..c) : d.data[i][j] = Null})
        repeated == Cardinality({i \in 1..r : \E k \in 1..r : k < i /\ d.data[k] = d.data[i]})
        constant ==
            Cardinality({j \in 1..c :
                Cardinality({d.data[i][j] : i \in 1..r} \ {Null}) <= 1})
    IN <<100 * r * c - 30 * missing - 20 * repeated * c - 15 * constant * r, r * c>>

\* C25: on a non-empty dataset on which scoring does not fail the score is at
\* least 35 and is the computed value itself (the clamp changes nothing); a
\* score below 35 is the 0 of an empty dataset.
C25_ScoreFloor ==
    Scored
        => /\ (~df.none /\ ~IsEmpty(df) /\ ~HasDuplicateColumns(df))
                => /\ out.value.num >= 35 * out.value.den
                   /\ RawScore(df)[1] >= 0
                   /\ RawScore(df)[1] <= 100 * RawScore(df)[2]
                   /\ out.value.num * RawScore(df)[2] = RawScore(df)[1] * out.value.den
           /\ out.value.num < 35 * out.value.den
                => (~df.none /\ IsEmpty(df) /\ out.value.num = 0)

\* A dataset with all three penalties: every cell missing and a repeated row.
C25_Witness ==
    /\ Scored /\ ~df.none /\ ~HasDuplicateColumns(df)
    /\ NRows(df) >= 2 /\ NCols(df) >= 2
    /\ TotalMissing(df) = NRows(df) * NCols(df)
    /\ out.value.num < 50 * out.value.den
    /\ out.value.num >= 35 * out.value.den

\* The report suggests that this column holds numeric data stored as text.
NumericHint(report, col) ==
    \E k \in 1..Len(report.suggestions) :
        /\ report.suggestions[k].text
               = "appears to contain numeric data but is stored as text"
        /\ report.suggestions[k].cols = <<col>>

\* The type advisor suggests int64 or float64 for this column.
NumericAdvice(d, col) ==
    \E k \in 1..Len(suggest_data_types(d)) :
        /\ suggest_data_types(d)[k].col = col
        /\ suggest_data_types(d)[k].type \in {"int64", "float64"}

\* C26: for a non-empty dataset with unique column names and each of its text
\* columns, a column with every value missing included, validate_dataframe
\* adds the numeric-stored-as-text suggestion iff suggest_data_types suggests
\* int64 or float64 for the column.
C26_ValidatorAdvisorAgree ==
    (Validated /\ ~df.none /\ ~IsEmpty(df) /\ ~HasDuplicateColumns(df))
        => \A j \in 1..NCols(df) :
               df.dtypes[j] = "object"
                   => (NumericHint(out.value, df.columns[j])
                           <=> NumericAdvice(df, df.columns[j]))
====
